---- MODULE Spec2Model ----
(***************************************************************************)
(* RINEX observation-file reader (rabgc/ReadRinex).                        *)
(*                                                                         *)
(* Lines are TLA+ strings handled character by character: the header       *)
(* interpreter depends on column offsets, token lengths and first/last     *)
(* characters, so nothing about a line is abstracted away.                 *)
(*                                                                         *)
(* Two revisions of parse_rinex_obs live in the repository:                *)
(*   - src/src/ParseRinex.cpp: header loop, one combined header check,     *)
(*     the v2/v3 data machines (specification Spec);                       *)
(*   - src/unnamed/part_001: header loop, the six ordered validations, no  *)
(*     data section (specification SpecDraft).                             *)
(***************************************************************************)
EXTENDS Integers, Sequences, FiniteSets, TLC

(***************************************************************************)
(* Characters and character classes                                        *)
(***************************************************************************)
Ch(s, i) == SubSeq(s, i, i)

Digits == "0123456789"
UpperLetters == "ABCDEFGHIJKLMNOPQRSTUVWXYZ"

CharsOf(s) == { Ch(s, i) : i \in 1..Len(s) }

DigitSet == CharsOf(Digits)
UpperSet == CharsOf(UpperLetters)

\* isdigit / isupper / isspace of <cctype> in the "C" locale
isdigit(c) == c \in DigitSet
isupper(c) == c \in UpperSet
isspace(c) == c \in {" ", "\t", "\n", "\r", "\f"}

DigitVal(c) == (CHOOSE i \in 1..10 : Ch(Digits, i) = c) - 1

SetMin(S) == CHOOSE m \in S : \A x \in S : m <= x
SetMax(S) == CHOOSE m \in S : \A x \in S : m >= x

\* width of the C++ int
INT_MAX == 2147483647

(***************************************************************************)
(* Lexical utilities                                                       *)
(***************************************************************************)
\* the set " \t\r\n" given to find_first_not_of / find_last_not_of
TrimChars == {" ", "\t", "\r", "\n"}

trim(s) ==
  LET keep == { i \in 1..Len(s) : Ch(s, i) \notin TrimChars }
  IN  IF keep = {} THEN "" ELSE SubSeq(s, SetMin(keep), SetMax(keep))

\* std::string::find(pat) != npos
Contains(s, pat) ==
  \E i \in 1..(Len(s) - Len(pat) + 1) : SubSeq(s, i, i + Len(pat) - 1) = pat

\* first index >= pos (1-based) whose character satisfies / fails isspace,
\* Len(s)+1 when there is none
NextNonSpace(s, pos) ==
  LET c == { i \in pos..Len(s) : ~isspace(Ch(s, i)) }
  IN  IF c = {} THEN Len(s) + 1 ELSE SetMin(c)

NextSpace(s, pos) ==
  LET c == { i \in pos..Len(s) : isspace(Ch(s, i)) }
  IN  IF c = {} THEN Len(s) + 1 ELSE SetMin(c)

\* the whitespace split done by the word loop and by operator>>(string)
RECURSIVE SplitFrom(_, _)
SplitFrom(s, pos) ==
  IF pos > Len(s) THEN << >>
  ELSE LET start == NextNonSpace(s, pos)
           stop  == NextSpace(s, start)
       IN  IF start < stop
           THEN <<SubSeq(s, start, stop - 1)>> \o SplitFrom(s, stop)
           ELSE SplitFrom(s, stop)

Words(s) == SplitFrom(s, 1)

\* default valid_start argument
ValidStart == CharsOf("CLDSPT")

extract_obs_types_from_line(line, skip_chars, min_len, max_len) ==
  LET obs_str == SubSeq(line, skip_chars + 1, Len(line))
      words   == Words(obs_str)
      keepW(w) == /\ Len(w) >= min_len
                  /\ Len(w) <= max_len
                  /\ Ch(w, 1) \in ValidStart
  IN  SelectSeq(words, keepW)

\* the character scan of is_number: state (dot, sign, digit), early false
RECURSIVE is_number_scan(_, _, _, _, _)
is_number_scan(s, i, dot, sign, digit) ==
  IF i > Len(s) THEN digit
  ELSE LET c == Ch(s, i) IN
       IF c = " " \/ c = "\t" THEN is_number_scan(s, i + 1, dot, sign, digit)
       ELSE IF c = "+" \/ c = "-"
            THEN IF sign THEN FALSE
                 ELSE is_number_scan(s, i + 1, dot, TRUE, digit)
       ELSE IF c = "."
            THEN IF dot THEN FALSE
                 ELSE is_number_scan(s, i + 1, TRUE, sign, digit)
       ELSE IF ~isdigit(c) /\ c # "E" /\ c # "e" THEN FALSE
       ELSE is_number_scan(s, i + 1, dot, sign, TRUE)

is_number(s) == is_number_scan(s, 1, FALSE, FALSE, FALSE)

\* value of the run of decimal digits of s starting at index i
RECURSIVE DigitRunEnd(_, _)
DigitRunEnd(s, i) ==
  IF i <= Len(s) /\ isdigit(Ch(s, i)) THEN DigitRunEnd(s, i + 1) ELSE i

\* The digit run accumulated as a negative number so that INT_MIN is
\* representable; 1 stands for "magnitude does not fit".
INT_MIN == 0 - INT_MAX - 1

RECURSIVE DigitRunNeg(_, _, _)
DigitRunNeg(s, i, acc) ==
  IF i <= Len(s) /\ isdigit(Ch(s, i))
  THEN LET d == DigitVal(Ch(s, i)) IN
       IF acc = 1 \/ acc < 0 - (INT_MAX \div 10) THEN DigitRunNeg(s, i + 1, 1)
       ELSE IF acc * 10 < INT_MIN + d THEN DigitRunNeg(s, i + 1, 1)
       ELSE DigitRunNeg(s, i + 1, acc * 10 - d)
  ELSE acc

\* std::stoi: skip leading whitespace, optional sign, decimal digits.
\* thrown = TRUE stands for std::invalid_argument (no digits) or
\* std::out_of_range (value does not fit an int).
stoi(s) ==
  LET b     == NextNonSpace(s, 1)
      neg   == b <= Len(s) /\ Ch(s, b) = "-"
      d     == IF b <= Len(s) /\ Ch(s, b) \in {"+", "-"} THEN b + 1 ELSE b
      e     == DigitRunEnd(s, d)
      nv    == DigitRunNeg(s, d, 0)
  IN  IF e = d THEN [thrown |-> TRUE, val |-> 0]
      ELSE IF nv = 1 \/ (~neg /\ nv = INT_MIN) THEN [thrown |-> TRUE, val |-> 0]
      ELSE [thrown |-> FALSE, val |-> IF neg THEN nv ELSE 0 - nv]

\* the k-th whitespace-delimited token of a line, "" when absent
\* (operator>> leaves the string empty when extraction fails)
Token(line, k) ==
  LET w == Words(line) IN IF Len(w) >= k THEN w[k] ELSE ""

parse_obs_type_count(line) ==
  LET token1 == Token(line, 1)
      token2 == Token(line, 2)
  IN  IF Len(token1) = 1 /\ isupper(Ch(token1, 1))
      THEN IF is_number(token2) THEN stoi(token2)
           ELSE [thrown |-> FALSE, val |-> -1]
      ELSE IF is_number(token1) THEN stoi(token1)
      ELSE [thrown |-> FALSE, val |-> -1]

\* variant: only a leading 3 means version 3
is_rinex_v3_Only3(line) ==
  IF Len(line) >= 20 /\ Contains(line, "RINEX VERSION / TYPE")
  THEN LET v == trim(SubSeq(line, 1, 20))
       IN  v # "" /\ Ch(v, 1) = "3"
  ELSE FALSE

is_rinex_v3(line) ==
  IF Len(line) >= 20 /\ Contains(line, "RINEX VERSION / TYPE")
  THEN LET v == trim(SubSeq(line, 1, 20))
       IN  v # "" /\ Ch(v, 1) \in {"3", "4"}
  ELSE FALSE

(***************************************************************************)
(* Satellite identifier normalizer                                         *)
(***************************************************************************)
is_gps_sat(sv) ==
  IF sv = "" THEN FALSE
  ELSE IF Ch(sv, 1) = "G" THEN TRUE
  ELSE isdigit(Ch(sv, 1))

\* variant: "%d", no zero padding
Fmt02d_NoPadding(n) == ToString(n)

\* "%02d" of a non-negative int
Fmt02d(n) ==
  IF n < 10 THEN "0" \o Ch(Digits, n + 1)
  ELSE IF n < 100 THEN Ch(Digits, (n \div 10) + 1) \o Ch(Digits, (n % 10) + 1)
  ELSE ToString(n)

\* snprintf(buf, 8, "G%02d", prn) keeps at most 7 characters
normalize_sat_id(sv) ==
  LET t == trim(sv) IN
  IF t = "" THEN t
  ELSE IF Ch(t, 1) = "G" THEN t
  ELSE IF isdigit(Ch(t, 1))
       THEN LET r == stoi(t) IN
            IF r.thrown THEN t
            ELSE LET full == "G" \o Fmt02d(r.val)
                 IN  SubSeq(full, 1, IF Len(full) > 7 THEN 7 ELSE Len(full))
  ELSE t

(***************************************************************************)
(* Formatted stream extraction (std::istringstream >> int / double).       *)
(* A stream is the text not yet consumed; a failed extraction leaves the   *)
(* stream failed, so every later extraction fails too.                     *)
(* A double is kept exactly as [m, k] meaning m / 10^k with no trailing    *)
(* zero in the fraction; exponent notation is not modelled and no input    *)
(* line of the model uses it.                                              *)
(***************************************************************************)
Zero == [m |-> 0, k |-> 0]

\* operator>>(int&): skip whitespace, optional sign, digit run
ExtractInt(s) ==
  LET b   == NextNonSpace(s, 1)
      neg == b <= Len(s) /\ Ch(s, b) = "-"
      d   == IF b <= Len(s) /\ Ch(s, b) \in {"+", "-"} THEN b + 1 ELSE b
      e   == DigitRunEnd(s, d)
      nv  == DigitRunNeg(s, d, 0)
  IN  IF e = d \/ nv = 1 \/ (~neg /\ nv = INT_MIN)
      THEN [ok |-> FALSE, val |-> 0, rest |-> ""]
      ELSE [ok |-> TRUE, val |-> IF neg THEN nv ELSE 0 - nv,
            rest |-> SubSeq(s, e, Len(s))]

\* index after the last non-zero digit of the digit run s[d..e-1]
RECURSIVE StripZerosEnd(_, _, _)
StripZerosEnd(s, d, e) ==
  IF e > d /\ Ch(s, e - 1) = "0" THEN StripZerosEnd(s, d, e - 1) ELSE e

RECURSIVE DigitRunValTo(_, _, _, _)
DigitRunValTo(s, i, e, acc) ==
  IF i < e THEN DigitRunValTo(s, i + 1, e, acc * 10 + DigitVal(Ch(s, i))) ELSE acc

\* operator>>(double&): skip whitespace, optional sign, digits [. digits]
ExtractDouble(s) ==
  LET b    == NextNonSpace(s, 1)
      neg  == b <= Len(s) /\ Ch(s, b) = "-"
      d    == IF b <= Len(s) /\ Ch(s, b) \in {"+", "-"} THEN b + 1 ELSE b
      e    == DigitRunEnd(s, d)
      dot  == e <= Len(s) /\ Ch(s, e) = "."
      f    == IF dot THEN DigitRunEnd(s, e + 1) ELSE e
      fz   == IF dot THEN StripZerosEnd(s, e + 1, f) ELSE e
      ip   == DigitRunValTo(s, d, e, 0)
      mant == IF dot THEN DigitRunValTo(s, e + 1, fz, ip) ELSE ip
      kk   == IF dot THEN fz - (e + 1) ELSE 0
      nod  == (e = d) /\ (~dot \/ f = e + 1)
  IN  IF nod THEN [ok |-> FALSE, val |-> Zero, rest |-> ""]
      ELSE [ok |-> TRUE,
            val |-> [m |-> IF neg THEN 0 - mant ELSE mant, k |-> kk],
            rest |-> SubSeq(s, f, Len(s))]

\* iss >> year >> month >> day >> hour >> minute >> second >> event_flag
\*     >> num_sv : fields 1..5, 7, 8 are ints, field 6 a double
RECURSIVE ExtractEpochFields(_, _, _)
ExtractEpochFields(s, i, acc) ==
  IF i > 8 THEN [ok |-> TRUE, vals |-> acc, rest |-> s]
  ELSE LET r == IF i = 6 THEN ExtractDouble(s) ELSE ExtractInt(s)
       IN  IF r.ok THEN ExtractEpochFields(r.rest, i + 1, Append(acc, r.val))
           ELSE [ok |-> FALSE, vals |-> acc, rest |-> ""]

\* for (j < obs_types.size()) { double val = 0.0; sat_iss >> val; push }
RECURSIVE ReadObsValues(_, _, _)
ReadObsValues(s, n, good) ==
  IF n = 0 THEN << >>
  ELSE LET r == IF good THEN ExtractDouble(s)
                ELSE [ok |-> FALSE, val |-> Zero, rest |-> ""]
       IN  <<r.val>> \o ReadObsValues(r.rest, n - 1, r.ok)

\* ObsEpoch{} then the field assignments of the epoch header
NewEpoch(v) ==
  [year |-> v[1], month |-> v[2], day |-> v[3], hour |-> v[4],
   minute |-> v[5], second |-> v[6], event_flag |-> v[7], num_sv |-> v[8],
   sat_L1L2 |-> << >>]

EmptyEpoch ==
  [year |-> 0, month |-> 0, day |-> 0, hour |-> 0, minute |-> 0,
   second |-> Zero, event_flag |-> 0, num_sv |-> 0, sat_L1L2 |-> << >>]

\* current_epoch.sat_L1L2[sv_id] = make_pair(l1, l2)
MapPut(mp, key, val) ==
  [q \in (DOMAIN mp) \cup {key} |-> IF q = key THEN val ELSE mp[q]]

\* l1 / l2 of a satellite row from the values read for it
RowPair(obs_values) ==
  << IF Len(obs_values) > 0 THEN obs_values[1] ELSE Zero,
     IF Len(obs_values) > 1 THEN obs_values[2] ELSE Zero >>

(***************************************************************************)
(* Header interpreter: the pieces shared by both revisions                 *)
(***************************************************************************)
VERSION_MARK == "RINEX VERSION / TYPE"
SYS_MARK     == "SYS / # / OBS TYPES"
TYPES_MARK   == "# / TYPES OF OBSERV"
EOH_MARK     == "END OF HEADER"

\* for (t_raw : fld) { t = trim(t_raw); if (!t.empty()) push_back(t);
\*                     if (size == obs_type_count) break; }
RECURSIVE PushTypes(_, _, _, _)
PushTypes(types, fld, i, count) ==
  IF i > Len(fld) THEN types
  ELSE LET t    == trim(fld[i])
           next == IF t # "" THEN Append(types, t) ELSE types
       IN  IF Len(next) = count THEN next
           ELSE PushTypes(next, fld, i + 1, count)

\* v3 continuation: read following lines while they carry the marker
RECURSIVE ContV3(_, _, _, _)
ContV3(types, p, count, f) ==
  IF Len(types) < count
  THEN IF p >= Len(f) THEN [types |-> types, p |-> p]
       ELSE LET l2 == f[p + 1] IN
            IF ~Contains(l2, SYS_MARK) THEN [types |-> types, p |-> p + 1]
            ELSE ContV3(PushTypes(types,
                                  extract_obs_types_from_line(l2, 0, 3, 4),
                                  1, count),
                        p + 1, count, f)
  ELSE [types |-> types, p |-> p]

\* v2 continuation: read following lines, no marker required
RECURSIVE ContV2(_, _, _, _)
ContV2(types, p, count, f) ==
  IF Len(types) < count
  THEN IF p >= Len(f) THEN [types |-> types, p |-> p]
       ELSE ContV2(PushTypes(types,
                             extract_obs_types_from_line(f[p + 1], 0, 2, 3),
                             1, count),
                   p + 1, count, f)
  ELSE [types |-> types, p |-> p]

\* the "SYS / # / OBS TYPES" block of one header-loop iteration
\* h: the header locals plus p (lines consumed) and ctl (control outcome)
HeaderV3Block(h, line, f) ==
  IF ~Contains(line, SYS_MARK) THEN h
  ELSE LET a == [h EXCEPT !.obs_type_line_found = TRUE, !.obs_type_line = line]
       IN  IF Ch(line, 1) # "G" THEN [a EXCEPT !.ctl = "continue"]
           ELSE LET c == parse_obs_type_count(line) IN
                IF c.thrown THEN [a EXCEPT !.ctl = "throw"]
                ELSE IF c.val <= 0
                     THEN [a EXCEPT !.obs_type_count = c.val, !.ctl = "ret_count_v3"]
                ELSE LET t1 == PushTypes(a.obs_types,
                                         extract_obs_types_from_line(line, 7, 3, 4),
                                         1, c.val)
                         r  == ContV3(t1, a.p, c.val, f)
                     IN  [a EXCEPT !.obs_type_count = c.val,
                                   !.obs_types = r.types, !.p = r.p]

\* the "# / TYPES OF OBSERV" block of one header-loop iteration
HeaderV2Block(h, line, f) ==
  IF h.ctl # "go" \/ ~Contains(line, TYPES_MARK) THEN h
  ELSE LET a == [h EXCEPT !.obs_type_line_found = TRUE, !.obs_type_line = line]
           c == parse_obs_type_count(line)
       IN  IF c.thrown THEN [a EXCEPT !.ctl = "throw"]
           ELSE IF c.val <= 0
                THEN [a EXCEPT !.obs_type_count = c.val, !.ctl = "ret_count_v2"]
           ELSE LET t1 == PushTypes(a.obs_types,
                                    extract_obs_types_from_line(line, 6, 2, 3),
                                    1, c.val)
                    r  == ContV2(t1, a.p, c.val, f)
                IN  [a EXCEPT !.obs_type_count = c.val,
                              !.obs_types = r.types, !.p = r.p]

\* the version block
HeaderVersionBlock(h, line) ==
  IF Contains(line, VERSION_MARK)
  THEN [h EXCEPT !.version_found = TRUE, !.version_line = line,
                 !.is_v3 = is_rinex_v3(line)]
  ELSE h

\* the END OF HEADER block
HeaderEndBlock(h, line) ==
  IF h.ctl = "go" /\ Contains(line, EOH_MARK)
  THEN [h EXCEPT !.eoh_found = TRUE, !.ctl = "break"]
  ELSE h

\* one iteration of the header loop of src/src/ParseRinex.cpp: the line is
\* trimmed before anything looks at it
HeaderIteration(h, f) ==
  LET line == trim(f[h.p + 1])
      h0   == [h EXCEPT !.p = h.p + 1, !.ctl = "go"]
  IN  HeaderEndBlock(
        HeaderV2Block(
          HeaderV3Block(HeaderVersionBlock(h0, line), line, f), line, f), line)

\* variant: the check does not ask for END OF HEADER
HeaderRejected_NoEohCheck(h) ==
  \/ ~h.version_found
  \/ ~h.obs_type_line_found
  \/ h.obs_type_count <= 0
  \/ Len(h.obs_types) # h.obs_type_count

\* the combined header check of src/src/ParseRinex.cpp
HeaderRejected(h) ==
  \/ ~h.eoh_found
  \/ ~h.version_found
  \/ ~h.obs_type_line_found
  \/ h.obs_type_count <= 0
  \/ Len(h.obs_types) # h.obs_type_count

(***************************************************************************)
(* Epoch / data interpreter                                                *)
(***************************************************************************)
\* the text left in a stream after operator>>(string) took the first token
RestAfterToken(line) ==
  SubSeq(line, NextSpace(line, NextNonSpace(line, 1)), Len(line))

\* variant: the epoch is appended after every row
RowStoredV3_AppendEveryRow(d, o, ep, left) ==
  [d |-> [d EXCEPT !.current_epoch = ep, !.svs_remaining = left,
                   !.in_epoch = IF left = 0 THEN FALSE ELSE @],
   o |-> [o EXCEPT !.epochs = Append(@, ep)]]

\* a satellite row stored into the open epoch: ep is the epoch with the
\* row stored, left the remaining count after the decrement
RowStoredV3(d, o, ep, left) ==
  [d |-> [d EXCEPT !.current_epoch = ep, !.svs_remaining = left,
                   !.in_epoch = IF left = 0 THEN FALSE ELSE @],
   o |-> IF left = 0 THEN [o EXCEPT !.epochs = Append(@, ep)] ELSE o]

\* variant: the epoch is appended when its header is read, before any row
EpochOpenedV3_AppendAtHeader(d, o, r) ==
  IF ~r.ok THEN [d |-> d, o |-> o]
  ELSE [d |-> [d EXCEPT !.current_epoch = NewEpoch(r.vals),
                        !.svs_remaining = r.vals[8],
                        !.in_epoch = TRUE],
        o |-> [o EXCEPT !.epochs = Append(@, NewEpoch(r.vals))]]

\* a v3 epoch header whose fields r were extracted
EpochOpenedV3(d, o, r) ==
  IF ~r.ok THEN [d |-> d, o |-> o]
  ELSE [d |-> [d EXCEPT !.current_epoch = NewEpoch(r.vals),
                        !.svs_remaining = r.vals[8],
                        !.in_epoch = TRUE],
        o |-> o]

\* v3 branch of one data-loop iteration on a non-empty trimmed line;
\* d: the data locals, o: the caller's RinexObs
DataV3Iteration(d, o, line) ==
  IF Ch(line, 1) = ">"
  THEN EpochOpenedV3(d, o, ExtractEpochFields(SubSeq(line, 2, Len(line)), 1, << >>))
  ELSE IF d.in_epoch /\ d.svs_remaining > 0
  THEN RowStoredV3(d, o,
         [d.current_epoch EXCEPT
            !.sat_L1L2 = MapPut(@, normalize_sat_id(Token(line, 1)),
                                RowPair(ReadObsValues(RestAfterToken(line),
                                                      Len(o.obs_types), TRUE)))],
         d.svs_remaining - 1)
  ELSE [d |-> d, o |-> o]

\* while (sv_ids.size() < num_sv) { getline; trim; append its tokens }
RECURSIVE CollectSvIds(_, _, _, _)
CollectSvIds(ids, p, num_sv, f) ==
  IF Len(ids) < num_sv
  THEN IF p >= Len(f) THEN [ids |-> ids, p |-> p]
       ELSE CollectSvIds(ids \o Words(trim(f[p + 1])), p + 1, num_sv, f)
  ELSE [ids |-> ids, p |-> p]

\* a satellite row stored into the open epoch (v2 machine)
RowStoredV2(d, o, ep, left, p) ==
  [d |-> [d EXCEPT !.current_epoch = ep, !.obs_lines_remaining = left,
                   !.in_epoch = IF left = 0 THEN FALSE ELSE @],
   o |-> IF left = 0 THEN [o EXCEPT !.epochs = Append(@, ep)] ELSE o,
   p |-> p, oob |-> FALSE]

\* a v2 epoch header with fields vals; c: the collected identifiers and the
\* lines consumed while collecting them
EpochOpenedV2(d, o, vals, c) ==
  [d |-> [d EXCEPT !.current_epoch = NewEpoch(vals),
                   !.sv_ids = c.ids,
                   !.obs_lines_remaining = vals[8],
                   !.in_epoch = TRUE],
   o |-> o, p |-> c.p, oob |-> FALSE]

\* the row branch: idx is sv_ids.size() - obs_lines_remaining
RowV2(d, o, line, p, idx) ==
  IF idx < 0 \/ idx >= Len(d.sv_ids)
  THEN [d |-> d, o |-> o, p |-> p, oob |-> TRUE]
  ELSE RowStoredV2(d, o,
         [d.current_epoch EXCEPT
            !.sat_L1L2 = MapPut(@, normalize_sat_id(d.sv_ids[idx + 1]),
                                RowPair(ReadObsValues(line, Len(o.obs_types), TRUE)))],
         d.obs_lines_remaining - 1, p)

\* variant: the identifiers are taken from the epoch header line only
DataV2Dispatch_NoIdContinuation(d, o, line, p, f, r) ==
  IF r.ok
  THEN EpochOpenedV2(d, o, r.vals, [ids |-> Words(r.rest), p |-> p])
  ELSE IF d.in_epoch /\ d.obs_lines_remaining > 0
  THEN RowV2(d, o, line, p, Len(d.sv_ids) - d.obs_lines_remaining)
  ELSE [d |-> d, o |-> o, p |-> p, oob |-> FALSE]

\* r: the eight epoch-header fields extracted from the line
DataV2Dispatch(d, o, line, p, f, r) ==
  IF r.ok
  THEN EpochOpenedV2(d, o, r.vals, CollectSvIds(Words(r.rest), p, r.vals[8], f))
  ELSE IF d.in_epoch /\ d.obs_lines_remaining > 0
  THEN RowV2(d, o, line, p, Len(d.sv_ids) - d.obs_lines_remaining)
  ELSE [d |-> d, o |-> o, p |-> p, oob |-> FALSE]

\* v2 branch of one data-loop iteration on a non-empty trimmed line;
\* p: lines consumed so far (this one included). oob marks an identifier
\* lookup outside sv_ids, which is undefined behaviour in the program.
DataV2Iteration(d, o, line, p, f) ==
  DataV2Dispatch(d, o, line, p, f, ExtractEpochFields(line, 1, << >>))

(***************************************************************************)
(* Input files.  A header line is 60 columns of content followed by its    *)
(* label (RINEX columns 61-80).                                            *)
(***************************************************************************)
\* most observation types a generated header declares
MaxTypes == 3
\* most satellites a generated epoch declares
MaxSats == 2

Blank60 == "                                                            "
Spaces(n) == SubSeq(Blank60, 1, n)
Pad(s, n) == IF Len(s) >= n THEN s ELSE s \o Spaces(n - Len(s))
RJ(s, n)  == IF Len(s) >= n THEN s ELSE Spaces(n - Len(s)) \o s
HLine(content, label) == Pad(content, 60) \o label

Prefix(seq, n) == SubSeq(seq, 1, n)
MinOf(a, b) == IF a <= b THEN a ELSE b

\* codes[i..j], each preceded by gap blanks
RECURSIVE JoinCodes(_, _, _, _)
JoinCodes(codes, i, j, gap) ==
  IF i > j THEN "" ELSE Spaces(gap) \o codes[i] \o JoinCodes(codes, i + 1, j, gap)

V3Pool == <<"C1C", "L1C", "C2W", "L2W", "S1C", "S2W">>
V2Pool == <<"L1", "L2", "C1", "P2", "P1", "D1">>

VersionLine(ver) ==
  HLine(Pad(Spaces(5) \o ver, 20) \o "OBSERVATION DATA", VERSION_MARK)

\* continuation lines carrying codes[i..], perLine codes each
RECURSIVE ContLines(_, _, _, _, _)
ContLines(codes, i, perLine, gap, label) ==
  IF i > Len(codes) THEN << >>
  ELSE <<HLine(Spaces(6) \o JoinCodes(codes, i,
                                      MinOf(i + perLine - 1, Len(codes)), gap),
               label)>>
       \o ContLines(codes, i + perLine, perLine, gap, label)

\* v3 declaration: A1,2X,I3 then (1X,A3) per code
V3DeclLines(sys, countTok, codes, perLine) ==
  <<HLine(sys \o Spaces(2) \o RJ(countTok, 3)
              \o JoinCodes(codes, 1, MinOf(perLine, Len(codes)), 1),
          SYS_MARK)>>
  \o ContLines(codes, perLine + 1, perLine, 1, SYS_MARK)

\* v2 declaration: I6 then (gap X, code) per code; gap = 4 is the RINEX 2
\* column layout 9(4X,A2)
V2DeclLines(countTok, codes, perLine, gap) ==
  <<HLine(RJ(countTok, 6)
              \o JoinCodes(codes, 1, MinOf(perLine, Len(codes)), gap),
          TYPES_MARK)>>
  \o ContLines(codes, perLine + 1, perLine, gap, TYPES_MARK)

NoDecl == [style |-> "none", sys |-> "", countTok |-> "", codes |-> << >>,
           perLine |-> 1, gap |-> 0]

V3Decl(sys, countTok, codes, perLine) ==
  [style |-> "v3", sys |-> sys, countTok |-> countTok, codes |-> codes,
   perLine |-> perLine, gap |-> 1]

V2Decl(countTok, codes, perLine, gap) ==
  [style |-> "v2", sys |-> "", countTok |-> countTok, codes |-> codes,
   perLine |-> perLine, gap |-> gap]

\* declarations whose count token is the number of codes or one more
CountedDecls ==
  { V3Decl("G", ToString(c), Prefix(V3Pool, n), k)
      : <<n, k, c>> \in { t \in (1..MaxTypes) \X (1..MaxTypes) \X (1..MaxTypes + 1)
                            : t[2] <= t[1] /\ t[3] \in {t[1], t[1] + 1} } }
  \cup
  { V2Decl(ToString(t[3]), Prefix(V2Pool, t[1]), t[2], t[4])
      : t \in { u \in (1..MaxTypes) \X (1..MaxTypes) \X (1..MaxTypes + 1) \X {4, 5}
                  : u[2] <= u[1] /\ u[3] \in {u[1], u[1] + 1} } }

\* declarations with a count token that is zero or not an integer, for
\* another constellation, or carrying the other version's codes
OddDecls ==
  { V3Decl("G", ct, Prefix(V3Pool, 1), 1) : ct \in {"0", "e"} }
  \cup { V2Decl(ct, Prefix(V2Pool, 1), 1, 5) : ct \in {"0", "e"} }
  \cup { V3Decl("R", "2", Prefix(V3Pool, 2), 2) }
  \cup { V3Decl("G", ToString(n), Prefix(V2Pool, n), n) : n \in 1..2 }
  \cup { V2Decl(ToString(n), Prefix(V3Pool, n), n, 5) : n \in 1..2 }

Decls == {NoDecl} \cup CountedDecls \cup OddDecls

DeclLines(dc) ==
  IF dc.style = "v3" THEN V3DeclLines(dc.sys, dc.countTok, dc.codes, dc.perLine)
  ELSE IF dc.style = "v2" THEN V2DeclLines(dc.countTok, dc.codes, dc.perLine, dc.gap)
  ELSE << >>

\* no version line, or a version token starting with 2, 3, 4 or a letter
Versions == {"", "2.11", "3.04", "4.00", "x3"}

\* the count token says exactly as many codes as the lines carry
CountExact(dc) == dc.style # "none" /\ dc.countTok = ToString(Len(dc.codes))

\* header descriptors: extra = a MARKER NAME line after the declaration,
\* eoh = the END OF HEADER line is present
Headers ==
  { hd \in [ver : Versions, decl : Decls, extra : BOOLEAN, eoh : BOOLEAN] :
      /\ hd.extra => (hd.decl \in CountedDecls /\ ~CountExact(hd.decl))
      /\ ~hd.eoh => (hd.decl = NoDecl
                       \/ (CountExact(hd.decl) /\ hd.decl \in CountedDecls
                             /\ hd.decl.perLine = Len(hd.decl.codes))) }

HeaderLines(hd) ==
  (IF hd.ver = "" THEN << >> ELSE <<VersionLine(hd.ver)>>)
  \o DeclLines(hd.decl)
  \o (IF hd.extra THEN <<HLine("SITE", "MARKER NAME")>> ELSE << >>)
  \o (IF hd.eoh THEN <<HLine("", EOH_MARK)>> ELSE << >>)

(***************************************************************************)
(* Data sections: sequences of epoch blocks                                *)
(***************************************************************************)
GpsIds   == <<"G01", "G02", "G03", "G04">>
MixedIds == <<"G01", "R03", "E11", "G04">>
BareIds  == <<"1", "2", "3", "4">>
\* the same satellite listed again and again
DupIds   == <<"G01", "G01", "G01", "G01">>

\* the j-th numeric field of the k-th row is written "k.j"
FieldTok(k, j) == ToString(k) \o "." \o ToString(j)
FieldVal(k, j) == [m |-> 10 * k + j, k |-> 1]

\* a field that is not a number
BadTok == "x"

\* the fields j..nf of the k-th row; the field numbered bad is not a number
RECURSIVE RowFields(_, _, _, _)
RowFields(k, j, nf, bad) ==
  IF j > nf THEN ""
  ELSE Spaces(2) \o (IF j = bad THEN BadTok ELSE FieldTok(k, j))
       \o RowFields(k, j + 1, nf, bad)

\* an epoch block descriptor:
\*   fmt      "v3" or "v2" layout of the epoch header line
\*   numTok   the satellite-count token ("x": not a number)
\*   ids      satellite identifiers (v3: one per row; v2: the identifier list)
\*   onHeader v2: how many identifiers sit on the epoch header line
\*   rows     number of satellite rows that follow
\*   nf       numeric fields per row
\*   blank    a blank line precedes the block
\*   bad      the number of the field that is not a number in every row
\*            (0: every field present is a number)
Block(fmt, numTok, ids, onHeader, rows, nf, blank) ==
  [fmt |-> fmt, numTok |-> numTok, ids |-> ids, onHeader |-> onHeader,
   rows |-> rows, nf |-> nf, blank |-> blank, bad |-> 0]

BadField(b, j) == [b EXCEPT !.bad = j]

RECURSIVE V3Rows(_, _)
V3Rows(b, k) ==
  IF k > b.rows THEN << >>
  ELSE <<b.ids[k] \o RowFields(k, 1, b.nf, b.bad)>> \o V3Rows(b, k + 1)

RECURSIVE V2Rows(_, _)
V2Rows(b, k) ==
  IF k > b.rows THEN << >>
  ELSE <<RowFields(k, 1, b.nf, b.bad)>> \o V2Rows(b, k + 1)

\* year, month, day, hour, minute, second, event flag; the minute is the
\* position of the block in its data section
EpochStamp(i) == " 20  1  1  0" \o RJ(ToString(i), 3) \o "  0.0000000  0"

BlockLines(b, i) ==
  (IF b.blank THEN <<"">> ELSE << >>)
  \o (IF b.fmt = "v3"
      THEN <<">" \o EpochStamp(i) \o RJ(b.numTok, 3)>> \o V3Rows(b, 1)
      ELSE <<EpochStamp(i) \o RJ(b.numTok, 3) \o JoinCodes(b.ids, 1, b.onHeader, 1)>>
           \o (IF b.onHeader < Len(b.ids)
               THEN <<Spaces(32) \o JoinCodes(b.ids, b.onHeader + 1, Len(b.ids), 1)>>
               ELSE << >>)
           \o V2Rows(b, 1))

V3Blocks ==
  \* complete epochs of GPS satellites
  { Block("v3", ToString(n), Prefix(GpsIds, n), 0, n, 2, FALSE) : n \in 1..MaxSats }
  \* rows of other constellations, bare PRNs
  \cup { Block("v3", ToString(MaxSats), Prefix(ids, MaxSats), 0, MaxSats, 2, FALSE)
           : ids \in {MixedIds, BareIds, DupIds} }
  \* cut short, declared count zero, malformed epoch header, short rows
  \cup { Block("v3", ToString(MaxSats), Prefix(GpsIds, MaxSats), 0, MaxSats - 1, 2, FALSE),
         Block("v3", "0", Prefix(GpsIds, 1), 0, 1, 2, FALSE),
         Block("v3", "x", Prefix(GpsIds, 1), 0, 1, 2, FALSE),
         Block("v3", "1", Prefix(GpsIds, 1), 0, 1, 1, TRUE) }

V2Blocks ==
  \* complete epochs, identifiers on the header line or on a continuation
  { Block("v2", ToString(n), Prefix(ids, n), h, n, 2, FALSE)
      : <<n, h>> \in { t \in (1..MaxSats) \X (0..MaxSats) : t[2] \in {t[1], t[1] - 1} },
        ids \in {GpsIds} }
  \cup { Block("v2", ToString(MaxSats), Prefix(ids, MaxSats), MaxSats, MaxSats, 2, FALSE)
           : ids \in {MixedIds, BareIds, DupIds} }
  \* more identifiers than declared, fewer identifiers than declared,
  \* cut short, declared count zero
  \cup { Block("v2", "1", Prefix(GpsIds, 2), 2, 1, 2, FALSE),
         Block("v2", ToString(MaxSats + 1), Prefix(GpsIds, MaxSats), MaxSats, 0, 2, FALSE),
         Block("v2", ToString(MaxSats), Prefix(GpsIds, MaxSats), MaxSats, MaxSats - 1, 2, FALSE),
         Block("v2", "0", << >>, 0, 1, 2, FALSE),
         Block("v2", "1", Prefix(GpsIds, 1), 1, 1, 1, TRUE) }

Blocks == V3Blocks \cup V2Blocks

\* a complete one-satellite epoch in each layout
PlainV3 == Block("v3", "1", Prefix(GpsIds, 1), 0, 1, 2, FALSE)
PlainV2 == Block("v2", "1", Prefix(GpsIds, 1), 1, 1, 2, FALSE)

\* an epoch whose rows are cut short
CutShortV3 ==
  Block("v3", ToString(MaxSats), Prefix(GpsIds, MaxSats), 0, MaxSats - 1, 2, FALSE)
CutShortV2 ==
  Block("v2", ToString(MaxSats), Prefix(GpsIds, MaxSats), MaxSats, MaxSats - 1, 2, FALSE)

\* a block whose epoch header does not parse, with one row after it
MalformedV3 == Block("v3", "x", SubSeq(GpsIds, MaxSats, MaxSats), 0, 1, 2, FALSE)
MalformedV2 == Block("v2", "x", << >>, 0, 1, 2, FALSE)

\* complete epochs whose rows carry no numeric field, or a first or a
\* second field that is not a number
FieldlessV3 == Block("v3", ToString(MaxSats), Prefix(GpsIds, MaxSats), 0, MaxSats, 0, FALSE)
FieldlessV2 ==
  Block("v2", ToString(MaxSats), Prefix(GpsIds, MaxSats), MaxSats, MaxSats, 0, FALSE)

OddFieldBlocks ==
  { FieldlessV3, FieldlessV2 }
  \cup { BadField(Block("v3", ToString(MaxSats), Prefix(GpsIds, MaxSats),
                         0, MaxSats, 2, FALSE), j) : j \in 1..2 }
  \cup { BadField(Block("v2", ToString(MaxSats), Prefix(GpsIds, MaxSats),
                         MaxSats, MaxSats, 2, FALSE), j) : j \in 1..2 }

\* a malformed epoch header inside an epoch that is still open, then a
\* plain epoch; a negative declared count; rows with odd fields; the
\* identifier list of the last epoch cut by the end of the file
\* an epoch that declares one satellite more than the file has identifiers
ShortIdsV2 ==
  Block("v2", ToString(MaxSats + 1), Prefix(GpsIds, MaxSats), MaxSats, 0, 2, FALSE)

ExtraSections ==
  { <<b>> : b \in OddFieldBlocks }
  \cup { <<PlainV2, ShortIdsV2>> }
  \cup { <<b, IF b.fmt = "v3" THEN PlainV3 ELSE PlainV2>> : b \in OddFieldBlocks }
  \cup
  { <<CutShortV3, MalformedV3>>, <<CutShortV3, MalformedV3, PlainV3>>,
    <<CutShortV2, MalformedV2>>, <<CutShortV2, MalformedV2, PlainV2>>,
    <<Block("v3", "-1", Prefix(GpsIds, 1), 0, 1, 2, FALSE), PlainV3>>,
    <<Block("v2", "-1", << >>, 0, 1, 2, FALSE), PlainV2>> }

\* data sections: no block, one block, or a block followed by a plain one
\* of the same layout
DataSections ==
  { << >> } \cup { <<b>> : b \in Blocks }
  \cup { <<b, PlainV3>> : b \in V3Blocks } \cup { <<b, PlainV2>> : b \in V2Blocks }
  \cup ExtraSections

\* data sections given to headers that are not expected to validate
BasicData == { << >>, <<PlainV3>>, <<PlainV2>> }

RECURSIVE DataLines(_, _)
DataLines(blocks, i) ==
  IF i > Len(blocks) THEN << >>
  ELSE BlockLines(blocks[i], i) \o DataLines(blocks, i + 1)

(***************************************************************************)
(* State                                                                   *)
(***************************************************************************)
VARIABLES
  input,   \* descriptor of the generated file and the caller's RinexObs
           \* before the call (never read by the parser)
  file,    \* the lines of the file at path
  fileOk,  \* whether std::ifstream f(path) opens
  pos,     \* number of lines std::getline has consumed
  pc,      \* "open", "header", "validate", "data", "done"
  hdr,     \* header locals: version_found, obs_type_line_found, eoh_found,
           \* is_v3, version_line, obs_type_line, obs_types, obs_type_count
  dat,     \* data locals: current_epoch, sv_ids, svs_remaining,
           \* obs_lines_remaining, in_epoch
  out,     \* the caller's RinexObs: is_v3, obs_types, epochs
  ret,     \* "none" while running; "true" / "false" returned; "throw": an
           \* exception left parse_rinex_obs; "ub": undefined behaviour
  site     \* the return statement taken

vars == <<input, file, fileOk, pos, pc, hdr, dat, out, ret, site>>

HdrInit ==
  [version_found |-> FALSE, obs_type_line_found |-> FALSE, eoh_found |-> FALSE,
   is_v3 |-> FALSE, version_line |-> "", obs_type_line |-> "",
   obs_types |-> << >>, obs_type_count |-> 0]

DatInit ==
  [current_epoch |-> EmptyEpoch, sv_ids |-> << >>, svs_remaining |-> 0,
   obs_lines_remaining |-> 0, in_epoch |-> FALSE]

\* a default-constructed RinexObs
FreshOut == [is_v3 |-> FALSE, obs_types |-> << >>, epochs |-> << >>]

\* a RinexObs already filled by an earlier successful parse
UsedOut ==
  [is_v3 |-> TRUE, obs_types |-> <<"C1C">>,
   epochs |-> <<[EmptyEpoch EXCEPT !.year = 19, !.num_sv = 1,
                   !.sat_L1L2 = MapPut(<< >>, "G09", <<FieldVal(9, 1), Zero>>)]>>]

\* headers whose data section is varied in full
Varied(hd) ==
  /\ hd.eoh /\ hd.ver # "" /\ ~hd.extra
  /\ \/ CountExact(hd.decl) /\ hd.decl.sys # "R"
        /\ (hd.decl.style = "v2" => hd.decl.gap = 5)
        /\ hd.decl.perLine \in {1, Len(hd.decl.codes)}
        /\ Len(hd.decl.codes) <= 2
     \/ hd.decl = V3Decl("G", "3", Prefix(V3Pool, 2), 2)

\* headers also parsed into a RinexObs that is already filled
Reused(hd) ==
  /\ hd.eoh /\ ~hd.extra
  /\ hd.decl \in { NoDecl, V3Decl("G", "2", Prefix(V3Pool, 2), 2),
                   V2Decl("2", Prefix(V2Pool, 2), 2, 5),
                   V3Decl("G", "0", Prefix(V3Pool, 1), 1) }

Inputs ==
  { [hd |-> h, data |-> d, out0 |-> FreshOut, ok |-> TRUE]
      : <<h, d>> \in { t \in Headers \X DataSections
                         : Varied(t[1]) \/ t[2] \in BasicData } }
  \cup
  { [hd |-> h, data |-> d, out0 |-> UsedOut, ok |-> TRUE]
      : <<h, d>> \in { t \in Headers \X BasicData : Reused(t[1]) } }
  \cup
  { [hd |-> [ver |-> "", decl |-> NoDecl, extra |-> FALSE, eoh |-> FALSE],
     data |-> << >>, out0 |-> o, ok |-> FALSE] : o \in {FreshOut, UsedOut} }

FileOf(in) == HeaderLines(in.hd) \o DataLines(in.data, 1)

Init ==
  /\ input \in Inputs
  /\ file = (IF input.ok THEN FileOf(input) ELSE << >>)
  /\ fileOk = input.ok
  /\ pos = 0
  /\ pc = "open"
  /\ hdr = HdrInit
  /\ dat = DatInit
  /\ out = input.out0
  /\ ret = "none"
  /\ site = "none"

(***************************************************************************)
(* parse_rinex_obs of src/src/ParseRinex.cpp                               *)
(***************************************************************************)
Return(r, s) == pc' = "done" /\ ret' = r /\ site' = s

HdrFields == DOMAIN HdrInit

\* std::ifstream f(path); if (!f) return false;
OpenFile ==
  /\ pc = "open"
  /\ IF fileOk
     THEN pc' = "header" /\ UNCHANGED <<ret, site>>
     ELSE Return("false", "open")
  /\ UNCHANGED <<input, file, fileOk, pos, hdr, dat, out>>

\* the effect of a header-loop iteration that ended in h
HeaderLineDone(h) ==
  /\ hdr' = [q \in HdrFields |-> h[q]]
  /\ pos' = h.p
  /\ IF h.ctl = "throw" THEN Return("throw", "stoi")
     ELSE IF h.ctl = "ret_count_v3" THEN Return("false", "count_v3")
     ELSE IF h.ctl = "ret_count_v2" THEN Return("false", "count_v2")
     ELSE IF h.ctl = "break" THEN pc' = "validate" /\ UNCHANGED <<ret, site>>
     ELSE UNCHANGED <<pc, ret, site>>

\* the effect of a data-loop iteration that ended in r
DataLineDone(r) ==
  /\ dat' = r.d
  /\ out' = r.o

\* the same for the v2 machine, which may consume further lines or index
\* sv_ids out of bounds
DataLineV2Done(r) ==
  /\ DataLineDone(r)
  /\ pos' = r.p
  /\ IF r.oob THEN Return("ub", "sv_ids")
     ELSE UNCHANGED <<pc, ret, site>>

\* one iteration of the header loop, continuation reads included
HeaderLine ==
  /\ pc = "header"
  /\ pos < Len(file)
  /\ HeaderLineDone(HeaderIteration(
       [q \in HdrFields \cup {"p", "ctl"} |->
          IF q = "p" THEN pos ELSE IF q = "ctl" THEN "go" ELSE hdr[q]], file))
  /\ UNCHANGED <<input, file, fileOk, dat, out>>

\* std::getline fails: the header loop ends without END OF HEADER
HeaderEof ==
  /\ pc = "header"
  /\ pos >= Len(file)
  /\ pc' = "validate"
  /\ UNCHANGED <<input, file, fileOk, pos, hdr, dat, out, ret, site>>

\* the combined check after the loop, then out.is_v3 / out.obs_types
ValidateHeader ==
  /\ pc = "validate"
  /\ IF HeaderRejected(hdr)
     THEN Return("false", "header") /\ UNCHANGED <<out, dat>>
     ELSE /\ out' = [out EXCEPT !.is_v3 = hdr.is_v3, !.obs_types = hdr.obs_types]
          /\ dat' = DatInit
          /\ pc' = "data"
          /\ UNCHANGED <<ret, site>>
  /\ UNCHANGED <<input, file, fileOk, pos, hdr>>

\* variant: the blank line is looked at again instead of being consumed
DataBlankLine_NoAdvance ==
  /\ pc = "data"
  /\ pos < Len(file)
  /\ trim(file[pos + 1]) = ""
  /\ UNCHANGED vars

\* if (line.empty()) continue;
DataBlankLine ==
  /\ pc = "data"
  /\ pos < Len(file)
  /\ trim(file[pos + 1]) = ""
  /\ pos' = pos + 1
  /\ UNCHANGED <<input, file, fileOk, pc, hdr, dat, out, ret, site>>

\* one iteration of the data loop in the v3 machine
DataLineV3 ==
  /\ pc = "data"
  /\ pos < Len(file)
  /\ hdr.is_v3
  /\ trim(file[pos + 1]) # ""
  /\ DataLineDone(DataV3Iteration(dat, out, trim(file[pos + 1])))
  /\ pos' = pos + 1
  /\ UNCHANGED <<input, file, fileOk, pc, hdr, ret, site>>

\* one iteration of the data loop in the v2 machine, identifier
\* continuation reads included
DataLineV2 ==
  /\ pc = "data"
  /\ pos < Len(file)
  /\ ~hdr.is_v3
  /\ trim(file[pos + 1]) # ""
  /\ DataLineV2Done(DataV2Iteration(dat, out, trim(file[pos + 1]), pos + 1, file))
  /\ UNCHANGED <<input, file, fileOk, hdr>>

\* end of input: if (out.epochs.empty()) return false; return true;
Finish ==
  /\ pc = "data"
  /\ pos >= Len(file)
  /\ IF out.epochs = << >> THEN Return("false", "no_epochs")
     ELSE Return("true", "ok")
  /\ UNCHANGED <<input, file, fileOk, pos, hdr, dat, out>>

Next ==
  \/ OpenFile
  \/ HeaderLine
  \/ HeaderEof
  \/ ValidateHeader
  \/ DataBlankLine
  \/ DataLineV3
  \/ DataLineV2
  \/ Finish

Spec == Init /\ [][Next]_vars

(***************************************************************************)
(* parse_rinex_obs of src/unnamed/part_001: the header loop reads the raw  *)
(* line, then six validations run in order; the data section is elided     *)
(* there ("...parse data section...") and the function returns true.       *)
(***************************************************************************)
\* the END OF HEADER block of the draft: break, nothing recorded
DraftEndBlock(h, line) ==
  IF h.ctl = "go" /\ Contains(line, EOH_MARK) THEN [h EXCEPT !.ctl = "break"] ELSE h

\* one iteration of the draft's header loop on the line at p
DraftIterationOn(h0, line, f) ==
  DraftEndBlock(
    HeaderV2Block(
      HeaderV3Block(HeaderVersionBlock(h0, line), line, f), line, f), line)

DraftHeaderIteration(h, f) ==
  DraftIterationOn([h EXCEPT !.p = h.p + 1, !.ctl = "go"], f[h.p + 1], f)

\* t.back() is one of the v3-only suffixes
V3Suffixes == {"C", "W", "P", "S", "X"}
\* the v2-only codes
LegacyCodes == {"C1", "L1", "S1", "C2", "L2", "S2"}

HasV3StyleType(types) ==
  \E i \in 1..Len(types) :
    Len(types[i]) >= 3 /\ Ch(types[i], Len(types[i])) \in V3Suffixes

HasV2StyleType(types) ==
  \E i \in 1..Len(types) : types[i] \in LegacyCodes

\* the return statement the draft's validation takes, "draft_ok" when all
\* six validations pass
DraftValidation(h) ==
  IF (h.is_v3 /\ ~Contains(h.obs_type_line, SYS_MARK))
       \/ (~h.is_v3 /\ ~Contains(h.obs_type_line, TYPES_MARK))
  THEN "style"
  ELSE IF ~h.version_found \/ ~h.obs_type_line_found THEN "missing"
  ELSE IF h.obs_type_count <= 0 THEN "count_nonpos"
  ELSE IF Len(h.obs_types) = 0 THEN "no_types"
  ELSE IF h.obs_type_count # Len(h.obs_types) THEN "mismatch"
  ELSE IF ~h.is_v3 /\ Contains(h.obs_type_line, TYPES_MARK)
            /\ HasV3StyleType(h.obs_types)
  THEN "v2_has_v3"
  ELSE IF h.is_v3 /\ Contains(h.obs_type_line, SYS_MARK)
            /\ HasV2StyleType(h.obs_types)
  THEN "v3_has_v2"
  ELSE "draft_ok"

DraftHeaderLine ==
  /\ pc = "header"
  /\ pos < Len(file)
  /\ HeaderLineDone(DraftHeaderIteration(
       [q \in HdrFields \cup {"p", "ctl"} |->
          IF q = "p" THEN pos ELSE IF q = "ctl" THEN "go" ELSE hdr[q]], file))
  /\ UNCHANGED <<input, file, fileOk, dat, out>>

DraftValidated(s) ==
  IF s = "draft_ok"
  THEN /\ out' = [out EXCEPT !.is_v3 = hdr.is_v3, !.obs_types = hdr.obs_types]
       /\ Return("true", s)
  ELSE /\ Return("false", s)
       /\ UNCHANGED out

DraftValidate ==
  /\ pc = "validate"
  /\ DraftValidated(DraftValidation(hdr))
  /\ UNCHANGED <<input, file, fileOk, pos, hdr, dat>>

InitDraft == Init /\ input.data \in BasicData

NextDraft ==
  \/ OpenFile
  \/ DraftHeaderLine
  \/ HeaderEof
  \/ DraftValidate

SpecDraft == InitDraft /\ [][NextDraft]_vars

(***************************************************************************)
(* Outcome of a call.  Both revisions return bool; the error kind is the   *)
(* classification of spec section 7 applied to the return statement taken  *)
(* (enum ParseRinexError is declared, its producer is not in the sources). *)
(***************************************************************************)
Outcome ==
  IF ret = "none" THEN "running"
  ELSE IF ret = "throw" THEN "abort"
  ELSE IF ret = "ub" THEN "undefined"
  ELSE IF ret = "true" THEN "success"
  ELSE IF site = "open" THEN "source-unavailable"
  ELSE IF site \in {"count_v3", "count_v2", "count_nonpos", "no_types",
                    "mismatch", "style"}
  THEN "invalid-type-count"
  ELSE IF site = "missing" THEN "missing-header"
  ELSE IF site \in {"v2_has_v3", "v3_has_v2"} THEN "incompatible-type-codes"
  ELSE IF site = "no_epochs" THEN "no-epochs"
  ELSE \* site = "header": the combined check of src/src/ParseRinex.cpp
       IF ~hdr.eoh_found \/ ~hdr.version_found \/ ~hdr.obs_type_line_found
       THEN "missing-header"
       ELSE "invalid-type-count"

(***************************************************************************)
(* Properties                                                              *)
(***************************************************************************)
\* the header loop and the header checks are behind the call
HeaderAccepted ==
  pc = "data" \/ (pc = "done" /\ site \in {"ok", "no_epochs", "sv_ids", "draft_ok"})

\* the call went through the header checks and returned from them or later
HeaderChecked ==
  pc = "done" /\ site \notin {"open", "stoi", "count_v3", "count_v2"}

\* epochs appended to the caller's RinexObs by this call
EpochsAppended == Len(out.epochs) - Len(input.out0.epochs)

\* the file is a RINEX 3 / RINEX 2 file whose declaration is of its own style
V3Header(hd) ==
  hd.ver = "3.04" /\ hd.decl.style = "v3" /\ hd.decl.sys = "G" /\ hd.eoh

V2Header(hd) ==
  hd.ver = "2.11" /\ hd.decl.style = "v2" /\ hd.eoh

\* C1: for a v3 header whose GPS declaration spreads its N codes over the
\* declaration line and continuation lines that carry the same label, an
\* accepted header leaves exactly the N declared codes, in order, in
\* obs_types (no word of the label among them).
C1_TypesCollectedExactly ==
  (/\ HeaderAccepted
   /\ V3Header(input.hd)
   /\ CountExact(input.hd.decl)
   /\ input.hd.decl.codes = Prefix(V3Pool, Len(input.hd.decl.codes))
   /\ input.hd.decl.perLine < Len(input.hd.decl.codes))
  => out.obs_types = input.hd.decl.codes

\* C2: a header whose declaration announces N > 0 codes while its
\* declaration and continuation lines supply fewer than N before END OF
\* HEADER is never parsed successfully (it is an invalid-type-count error).
C2_FewerCodesNeverSucceed ==
  (/\ pc = "done"
   /\ (V3Header(input.hd) \/ V2Header(input.hd))
   /\ input.hd.decl \in CountedDecls
   /\ ~CountExact(input.hd.decl))
  => (ret # "true" /\ Outcome # "success")

\* C3: the call returns success only if it completed at least one epoch from
\* the data section of the file it parsed; with zero epochs completed the
\* outcome is no-epochs.
C3_SuccessNeedsEpoch ==
  (pc = "done" /\ HeaderAccepted /\ ret \in {"true", "false"})
  => IF EpochsAppended >= 1 THEN Outcome = "success" ELSE Outcome = "no-epochs"

\* C4: when the call returns an error, the caller's RinexObs is what it was
\* before the call.
C4_ErrorLeavesOutUntouched ==
  (pc = "done" /\ ret = "false") => out = input.out0

\* C5: every call ends by returning success or an error kind; none ends by
\* an exception leaving parse_rinex_obs or by undefined behaviour.
C5_NoAbnormalEnd ==
  pc = "done" => ret \in {"true", "false"}

\* C6: every key of the satellite map of every epoch in the RinexObs is a
\* GPS identifier; rows of other constellations are not stored.
C6_OnlyGpsStored ==
  \A i \in 1..Len(out.epochs) :
    \A key \in DOMAIN out.epochs[i].sat_L1L2 : Ch(key, 1) = "G"

\* the satellite map the k-th .. n-th identifiers and rows of a block give
RECURSIVE ExpectedMap(_, _)
ExpectedMap(b, k) ==
  IF k > b.rows THEN << >>
  ELSE MapPut(ExpectedMap(b, k + 1), normalize_sat_id(b.ids[k]),
              <<FieldVal(k, 1), FieldVal(k, 2)>>)

\* a valid RINEX 2 file: d >= 2 declared types, one epoch of n satellites
\* whose identifiers are all on the epoch header line, n rows after it
MinimalV2File(in) ==
  /\ in.ok /\ in.out0 = FreshOut
  /\ V2Header(in.hd) /\ ~in.hd.extra
  /\ in.hd.decl \in CountedDecls /\ CountExact(in.hd.decl)
  /\ Len(in.hd.decl.codes) >= 2
  /\ Len(in.data) = 1
  /\ in.data[1].fmt = "v2" /\ ~in.data[1].blank /\ in.data[1].nf >= 2
  /\ in.data[1].bad = 0
  /\ Len(in.data[1].ids) >= 1
  /\ in.data[1].ids = Prefix(GpsIds, Len(in.data[1].ids))
  /\ in.data[1].numTok = ToString(Len(in.data[1].ids))
  /\ in.data[1].onHeader = Len(in.data[1].ids)
  /\ in.data[1].rows = Len(in.data[1].ids)

\* C7: a valid RINEX 2 file with d >= 2 types and a single epoch of n
\* satellites parses to success with is_v3 false, the d declared codes in
\* order, exactly one epoch, and a map of n entries holding for the k-th
\* identifier the first and second field of the k-th row.
C7_MinimalV2FileParses ==
  (pc = "done" /\ MinimalV2File(input))
  => /\ ret = "true"
     /\ ~out.is_v3
     /\ out.obs_types = input.hd.decl.codes
     /\ Len(out.epochs) = 1
     /\ out.epochs[1].sat_L1L2 = ExpectedMap(input.data[1], 1)

\* the version line and the only declaration line are of different styles
StyleDisagrees(hd) ==
  \/ hd.ver = "3.04" /\ hd.decl.style = "v2"
  \/ hd.ver = "2.11" /\ hd.decl.style = "v3"

\* C8: when the version line says one RINEX version and the only
\* declaration line is of the other style, the outcome is
\* invalid-type-count and no data line is interpreted.
C8_StyleDisagreementRejected ==
  (pc = "done" /\ StyleDisagrees(input.hd) /\ input.hd.eoh
     /\ CountExact(input.hd.decl))
  => (Outcome = "invalid-type-count" /\ dat = DatInit
        /\ EpochsAppended = 0)

\* C9: with the six validations applied in their order, a header read to
\* END OF HEADER or to the end of the file in which no declaration line or
\* no version line was seen gives missing-header.
C9_MissingLineIsMissingHeader ==
  (HeaderChecked /\ (~hdr.version_found \/ ~hdr.obs_type_line_found))
  => Outcome = "missing-header"

\* the declaration lists a code of the other version's vocabulary
ForeignCodes(hd) ==
  \/ V3Header(hd) /\ HasV2StyleType(hd.decl.codes)
  \/ V2Header(hd) /\ HasV3StyleType(hd.decl.codes)

\* C10: a v3 GPS declaration listing one of C1, L1, S1, C2, L2, S2, and a
\* v2 declaration listing a token of length >= 3 that ends in C, W, P, S or
\* X, give incompatible-type-codes.
C10_ForeignCodesRejected ==
  (HeaderChecked /\ ForeignCodes(input.hd) /\ CountExact(input.hd.decl))
  => Outcome = "incompatible-type-codes"

(***************************************************************************)
(* parse_rinex_obs of src/src/ParseRinex.cpp as a function of the file and *)
(* of the caller's RinexObs: the same iterations, run to the return.       *)
(***************************************************************************)
\* the header loop from h to its exit
RECURSIVE HeaderRun(_, _)
HeaderRun(h, f) ==
  IF h.ctl \in {"throw", "ret_count_v3", "ret_count_v2", "break"} \/ h.p >= Len(f)
  THEN h
  ELSE HeaderRun(HeaderIteration(h, f), f)

\* a v3 iteration result carried with the lines consumed
AtLine(r, p) == [d |-> r.d, o |-> r.o, p |-> p, oob |-> FALSE]

\* one data-loop iteration on the trimmed line, p lines consumed with it
DataStep(d, o, line, p, f, v3) ==
  IF line = "" THEN [d |-> d, o |-> o, p |-> p, oob |-> FALSE]
  ELSE IF v3 THEN AtLine(DataV3Iteration(d, o, line), p)
  ELSE DataV2Iteration(d, o, line, p, f)

\* the data loop from r to the end of the file
RECURSIVE DataRun(_, _, _)
DataRun(r, f, v3) ==
  IF r.oob \/ r.p >= Len(f) THEN r
  ELSE DataRun(DataStep(r.d, r.o, trim(f[r.p + 1]), r.p + 1, f, v3), f, v3)

\* the return after the data loop
DataReturn(r) ==
  IF r.oob THEN [ret |-> "ub", site |-> "sv_ids", out |-> r.o]
  ELSE IF r.o.epochs = << >>
  THEN [ret |-> "false", site |-> "no_epochs", out |-> r.o]
  ELSE [ret |-> "true", site |-> "ok", out |-> r.o]

\* everything after the header loop ended in h
AfterHeader(h, f, o0) ==
  IF h.ctl = "throw" THEN [ret |-> "throw", site |-> "stoi", out |-> o0]
  ELSE IF h.ctl = "ret_count_v3"
  THEN [ret |-> "false", site |-> "count_v3", out |-> o0]
  ELSE IF h.ctl = "ret_count_v2"
  THEN [ret |-> "false", site |-> "count_v2", out |-> o0]
  ELSE IF HeaderRejected(h) THEN [ret |-> "false", site |-> "header", out |-> o0]
  ELSE DataReturn(
         DataRun([d |-> DatInit,
                  o |-> [o0 EXCEPT !.is_v3 = h.is_v3, !.obs_types = h.obs_types],
                  p |-> h.p, oob |-> FALSE],
                 f, h.is_v3))

\* the return value, the return statement taken and the caller's RinexObs
\* after parse_rinex_obs on file f (ok: the file opens) and RinexObs o0
ParseResult(f, ok, o0) ==
  IF ~ok THEN [ret |-> "false", site |-> "open", out |-> o0]
  ELSE AfterHeader(
         HeaderRun([q \in HdrFields \cup {"p", "ctl"} |->
                      IF q = "p" THEN 0 ELSE IF q = "ctl" THEN "go" ELSE HdrInit[q]],
                   f),
         f, o0)

\* the call ended as r says
EndedAs(r) ==
  /\ ret = r.ret
  /\ site = r.site
  /\ ret = "true" => out = r.out

\* C11: the result of a call depends only on the file: whatever the
\* caller's RinexObs held before the call, the call ends with the outcome
\* and, on success, with the version flag, type list and epoch sequence
\* that the same file gives on an empty RinexObs.
C11_ResultIndependentOfOut ==
  pc = "done" => EndedAs(ParseResult(file, fileOk, FreshOut))

\* the function agrees with the step-by-step parse
ParseResultAgrees ==
  pc = "done" => (EndedAs(ParseResult(file, fileOk, input.out0))
                    /\ out = ParseResult(file, fileOk, input.out0).out)

\* C12: in every state, every epoch of the RinexObs has a satellite map
\* with at least one entry and at most num_sv entries.
C12_MapSizeBounded ==
  \A i \in 1..Len(out.epochs) :
    Cardinality(DOMAIN out.epochs[i].sat_L1L2) \in 1..out.epochs[i].num_sv

\* an epoch appended by this call whose rows named one satellite several
\* times: fewer entries than its declared count
C12_FewerEntriesThanDeclared ==
  \E i \in (Len(input.out0.epochs) + 1)..Len(out.epochs) :
    /\ out.epochs[i].num_sv = MaxSats
    /\ Cardinality(DOMAIN out.epochs[i].sat_L1L2) < MaxSats

\* the call returned from the header phase with an error
HeaderFailed ==
  pc = "done" /\ site \in {"count_v3", "count_v2", "header"}

\* C13: no epoch is opened or appended, and the data loop does not run,
\* before END OF HEADER was consumed and the header check passed; after a
\* header failure the data phase never runs (no epoch opened or appended,
\* the call is over).
C13_HeaderBeforeData ==
  /\ (dat # DatInit \/ EpochsAppended > 0 \/ pc = "data")
       => (HeaderAccepted /\ hdr.eoh_found /\ ~HeaderRejected(hdr))
  /\ HeaderFailed => (dat = DatInit /\ EpochsAppended = 0 /\ ~ENABLED Next)

\* the data loop has opened an epoch, after an accepted header
C13_EpochOpenAfterHeader ==
  pc = "data" /\ dat.in_epoch /\ hdr.eoh_found /\ pos > 0

\* C14: on every successful parse the type list is non-empty, its length
\* is the count the header's declaration announces, and the version flag
\* is v3 exactly when the version token starts with 3 or 4.
C14_TypeCountAndVersionFlag ==
  (pc = "done" /\ ret = "true")
  => /\ Len(out.obs_types) >= 1
     /\ input.hd.decl.countTok = ToString(Len(out.obs_types))
     /\ input.hd.ver # ""
     /\ out.is_v3 = (Ch(input.hd.ver, 1) \in {"3", "4"})

\* a successful parse of a file whose version token starts with 4
C14_Version4Success ==
  /\ pc = "done" /\ ret = "true"
  /\ Ch(input.hd.ver, 1) = "4"
  /\ out.is_v3
  /\ Len(out.obs_types) >= 2

(***************************************************************************)
(* The token functions is_number and normalize_sat_id on their own: a call *)
(* takes a token, `out` is the sequence of values returned so far.         *)
(* normalize_sat_id is applied a second time to its own result.            *)
(***************************************************************************)
\* longest token drawn from an alphabet
MaxTokLen == 3

\* all strings of at most n characters of alpha
RECURSIVE StringsUpTo(_, _)
StringsUpTo(alpha, n) ==
  IF n = 0 THEN {""}
  ELSE {""} \cup { c \o t : c \in alpha, t \in StringsUpTo(alpha, n - 1) }

\* a digit, the signs, the point, the exponent letters, blank, tab, a letter
NumberAlphabet == {"1", "+", "-", ".", "e", "E", " ", "\t", "a"}

NumberTokens ==
  StringsUpTo(NumberAlphabet, MaxTokLen)
  \cup {"1.5", "-3", "+2.3E4", "", "abc", "1.2.3", "12345", "1e5", "- 1 . 5"}

\* constellation letters, digits, a blank, a letter after the digits
SatAlphabet == {"G", "R", "0", "1", "9", " "}

SatTokens ==
  StringsUpTo(SatAlphabet, MaxTokLen)
  \cup {"G05", "R03", "E11", " 7 ", "12x", "1.5", "100", "2147483647",
        "2147483648", "99999999999", "-1", "+5", ""}

TokenCalls ==
  { [fn |-> "is_number", arg |-> t] : t \in NumberTokens }
  \cup { [fn |-> "normalize_sat_id", arg |-> t] : t \in SatTokens }

InitTokens ==
  /\ input \in TokenCalls
  /\ file = << >>
  /\ fileOk = TRUE
  /\ pos = 0
  /\ pc = "call"
  /\ hdr = HdrInit
  /\ dat = DatInit
  /\ out = << >>
  /\ ret = "none"
  /\ site = "none"

CallIsNumber ==
  /\ pc = "call"
  /\ input.fn = "is_number"
  /\ out' = <<is_number(input.arg)>>
  /\ pc' = "done"
  /\ UNCHANGED <<input, file, fileOk, pos, hdr, dat, ret, site>>

CallNormalize ==
  /\ pc = "call"
  /\ input.fn = "normalize_sat_id"
  /\ out' = <<normalize_sat_id(input.arg)>>
  /\ pc' = "again"
  /\ UNCHANGED <<input, file, fileOk, pos, hdr, dat, ret, site>>

CallNormalizeAgain ==
  /\ pc = "again"
  /\ out' = Append(out, normalize_sat_id(out[1]))
  /\ pc' = "done"
  /\ UNCHANGED <<input, file, fileOk, pos, hdr, dat, ret, site>>

NextTokens ==
  \/ CallIsNumber
  \/ CallNormalize
  \/ CallNormalizeAgain

SpecTokens == InitTokens /\ [][NextTokens]_vars

\* how many characters of s are in S
CountChars(s, S) == Cardinality({ i \in 1..Len(s) : Ch(s, i) \in S })

\* at most one sign, at most one point, at least one digit, nothing but
\* digits, signs, points, e, E, blanks and tabs
NumberShaped(s) ==
  /\ CountChars(s, {"+", "-"}) <= 1
  /\ CountChars(s, {"."}) <= 1
  /\ CountChars(s, DigitSet) >= 1
  /\ CountChars(s, DigitSet \cup {"+", "-", ".", "e", "E", " ", "\t"}) = Len(s)

\* C15: is_number(s) is true if and only if s has at most one sign, at
\* most one decimal point, at least one digit, and no character other than
\* digits, signs, points, e, E, blank and tab.
C15_IsNumberCharacterised ==
  (pc = "done" /\ input.fn = "is_number")
  => (out[1] <=> NumberShaped(input.arg))

\* the integer a token starts with (its leading digit run)
LeadingInt(t) == DigitRunValTo(t, 1, DigitRunEnd(t, 1), 0)

\* n in 0..99 written with two digits
TwoDigits(n) == Ch(Digits, (n \div 10) + 1) \o Ch(Digits, (n % 10) + 1)

\* r is what the claim says normalize_sat_id gives for the trimmed token t
NormalizedAs(t, r) ==
  IF t = "" \/ ~isdigit(Ch(t, 1)) THEN r = t
  ELSE (DigitRunEnd(t, 1) <= 10 /\ LeadingInt(t) <= 99)
         => r = "G" \o TwoDigits(LeadingInt(t))

\* C16: normalize_sat_id returns a value for every token: the trimmed
\* token unchanged when it starts with G or any other non-digit, G and the
\* two-digit zero-padded PRN when it starts with a digit and its leading
\* integer is in 0..99; applying it twice gives what applying it once gives.
C16_NormalizeSatId ==
  (pc = "done" /\ input.fn = "normalize_sat_id")
  => /\ Len(out) = 2
     /\ NormalizedAs(trim(input.arg), out[1])
     /\ out[2] = out[1]

\* a bare PRN between blanks was padded to G07, and stayed G07
C16_BarePrnPadded ==
  /\ pc = "done"
  /\ input.fn = "normalize_sat_id"
  /\ input.arg = " 7 "
  /\ out = <<"G07", "G07">>

\* the next line of the data loop, trimmed ("" at the end of the file)
NextDataLine == IF pos < Len(file) THEN trim(file[pos + 1]) ELSE ""

\* a line that begins with '>' and whose epoch fields do not parse
MalformedEpochLine(line) ==
  /\ line # ""
  /\ Ch(line, 1) = ">"
  /\ ~ExtractEpochFields(SubSeq(line, 2, Len(line)), 1, << >>).ok

\* C17: in the v3 machine, a step that reads a line beginning with '>'
\* whose epoch fields fail to parse leaves the machine idle (no epoch open),
\* whatever its state was before the line.
C17_MalformedHeaderLeavesIdle ==
  [][ (pc = "data" /\ hdr.is_v3 /\ MalformedEpochLine(NextDataLine))
        => ~dat'.in_epoch ]_vars

\* satellite rows read so far for the epoch the v2 machine opened last
RowsReadV2 == dat.current_epoch.num_sv - dat.obs_lines_remaining

\* C18: in the v2 machine the k-th satellite row of an epoch is stored
\* under the normalized k-th identifier collected for that epoch, also
\* when more identifiers were collected than the epoch declares: the keys
\* stored so far are the normalized first identifiers, one per row read.
C18_RowKeyedByPosition ==
  (/\ pc \in {"data", "done"} /\ HeaderAccepted /\ ~hdr.is_v3
   /\ dat.current_epoch.num_sv >= 1
   /\ Len(dat.sv_ids) >= dat.current_epoch.num_sv)
  => DOMAIN dat.current_epoch.sat_L1L2
       = { normalize_sat_id(dat.sv_ids[k]) : k \in 1..RowsReadV2 }

\* the remaining count of the machine in use
Remaining(d) == IF hdr.is_v3 THEN d.svs_remaining ELSE d.obs_lines_remaining

\* the next line is an epoch header whose fields parse
WellFormedEpochLine(line) ==
  /\ line # ""
  /\ IF hdr.is_v3
     THEN Ch(line, 1) = ">"
            /\ ExtractEpochFields(SubSeq(line, 2, Len(line)), 1, << >>).ok
     ELSE ExtractEpochFields(line, 1, << >>).ok

\* the next line is read as a satellite row of the open epoch
RowLine(line) ==
  /\ line # ""
  /\ ~WellFormedEpochLine(line)
  /\ hdr.is_v3 => Ch(line, 1) # ">"
  /\ dat.in_epoch
  /\ Remaining(dat) > 0

\* the epoch header fields of an epoch
Stamp(ep) == [q \in DOMAIN ep \ {"sat_L1L2"} |-> ep[q]]

\* a data-loop step that reads a well-formed epoch header: a fresh epoch
\* is open, waiting for num_sv rows; nothing is appended
HeaderStepOk ==
  /\ dat'.in_epoch
  /\ dat'.current_epoch.sat_L1L2 = << >>
  /\ Remaining(dat') = dat'.current_epoch.num_sv
  /\ out' = out

\* a data-loop step that reads a row: the count drops by one, and the
\* epoch is appended exactly when it drops to zero, leaving the machine idle
RowStepOk ==
  /\ Remaining(dat') = Remaining(dat) - 1
  /\ Stamp(dat'.current_epoch) = Stamp(dat.current_epoch)
  /\ dat'.current_epoch.num_sv >= 1
  /\ IF Remaining(dat') = 0
     THEN ~dat'.in_epoch /\ out'.epochs = Append(out.epochs, dat'.current_epoch)
     ELSE dat'.in_epoch /\ out' = out

\* C19: an epoch is appended exactly at the step where its remaining count
\* drops to zero, num_sv rows after its header, and the machine is then
\* idle; a new well-formed epoch header discards the rows of an unfinished
\* epoch, an epoch with a count <= 0 takes no row, and the end of input
\* appends nothing; epochs already appended are never modified or reordered.
C19_AppendAtZero ==
  [][ IF pc = "data" /\ WellFormedEpochLine(NextDataLine) THEN HeaderStepOk
      ELSE IF pc = "data" /\ RowLine(NextDataLine) THEN RowStepOk
      ELSE out'.epochs = out.epochs /\ (pc = "data" => dat' = dat) ]_vars

\* an epoch cut short by the next epoch header was dropped and the next
\* epoch appended
C19_CutShortDropped ==
  /\ pc = "done" /\ ret = "true"
  /\ input.data \in {<<CutShortV3, PlainV3>>, <<CutShortV2, PlainV2>>}
  /\ EpochsAppended = 1
  /\ out.epochs[Len(out.epochs)].minute = 2

\* the number of the first line containing END OF HEADER, 0 if there is none
RECURSIVE FirstEohLine(_, _)
FirstEohLine(f, i) ==
  IF i > Len(f) THEN 0
  ELSE IF Contains(trim(f[i]), EOH_MARK) THEN i
  ELSE FirstEohLine(f, i + 1)

\* the header phase has read past the END OF HEADER line of the file
ReadPastEoh ==
  /\ pc \in {"header", "validate"}
  /\ FirstEohLine(file, 1) > 0
  /\ pos > FirstEohLine(file, 1)

\* C20: the header phase consumes lines only up to and including the first
\* line containing END OF HEADER, and a header that contains such a line
\* never reaches the header check without the end-of-header flag.
C20_HeaderStopsAtEndOfHeader ==
  (fileOk /\ FirstEohLine(file, 1) > 0)
    => /\ ~ReadPastEoh
       /\ pc = "validate" => hdr.eoh_found

\* the j-th numeric field of the rows of block b is absent or not a number
FieldUnreadable(b, j) == j > b.nf \/ b.bad = j

\* the call went past the header of a file whose first epoch block b is a
\* complete epoch in the layout of the machine that reads it
ReadsCompleteEpoch(b) ==
  /\ pc = "done" /\ HeaderAccepted
  /\ hdr.is_v3 = (b.fmt = "v3")
  /\ b.numTok = ToString(b.rows) /\ b.rows = Len(b.ids) /\ b.rows >= 1
  /\ b.onHeader = (IF b.fmt = "v3" THEN 0 ELSE Len(b.ids))
  /\ b.ids = Prefix(GpsIds, Len(b.ids))

\* every row of b was counted, so that its epoch was appended holding one
\* entry per row, and the unreadable fields among the first two are 0.0
RowsCountedZeroFilled(b, o) ==
  /\ ret = "true"
  /\ Len(o.epochs) > Len(input.out0.epochs)
  /\ LET m == o.epochs[Len(input.out0.epochs) + 1].sat_L1L2 IN
       /\ DOMAIN m = { b.ids[k] : k \in 1..b.rows }
       /\ \A k \in 1..b.rows :
            /\ FieldUnreadable(b, 1) => m[b.ids[k]][1] = Zero
            /\ (FieldUnreadable(b, 2) \/ Len(o.obs_types) < 2)
                 => m[b.ids[k]][2] = Zero

\* C21: a satellite row whose numeric fields are absent or not numbers
\* never aborts the parse or its epoch: every row of a complete epoch is
\* counted against the remaining count, so the epoch is appended with one
\* entry per row, and each absent or unparseable field among the first two
\* is stored as 0.0 (L2 is 0.0 with a single declared observation type).
C21_UnreadableFieldsAreZero ==
  \A b \in OddFieldBlocks \cup Blocks :
    (Len(input.data) >= 1 /\ input.data[1] = b /\ ReadsCompleteEpoch(b))
      => RowsCountedZeroFilled(b, out)

\* the same for the rows that carry at least one field or an identifier,
\* that is, for every row that is not a blank line
C21_NonBlankRowsCounted ==
  \A b \in (OddFieldBlocks \cup Blocks) \ {FieldlessV2} :
    (Len(input.data) >= 1 /\ input.data[1] = b /\ ReadsCompleteEpoch(b))
      => RowsCountedZeroFilled(b, out)

(***************************************************************************)
(* Termination.  parse_rinex_obs is straight-line synchronous code on one  *)
(* thread: a statement that can be executed is executed.  That is weak     *)
(* fairness of every action.  For the three actions that run a whole loop  *)
(* iteration, weak fairness is written out, []<>~enabled \/ []<>step, with *)
(* the guard of the action as its enabling condition: the rest of such an  *)
(* action only assigns the values the iteration computes.                  *)
(***************************************************************************)
LineStepsFair ==
  /\ []<>~(pc = "header" /\ pos < Len(file))
       \/ []<><<HeaderLine>>_vars
  /\ []<>~(pc = "data" /\ pos < Len(file) /\ hdr.is_v3 /\ trim(file[pos + 1]) # "")
       \/ []<><<DataLineV3>>_vars
  /\ []<>~(pc = "data" /\ pos < Len(file) /\ ~hdr.is_v3 /\ trim(file[pos + 1]) # "")
       \/ []<><<DataLineV2>>_vars

SpecLive ==
  /\ Spec
  /\ WF_vars(OpenFile) /\ WF_vars(HeaderEof) /\ WF_vars(ValidateHeader)
  /\ WF_vars(DataBlankLine) /\ WF_vars(Finish)
  /\ LineStepsFair

\* a step inside a loop consumes at least one new line or leaves the loop;
\* the read position never moves back and never passes the end of the file
ForwardStep ==
  /\ file' = file
  /\ pos' >= pos /\ pos' <= Len(file)
  /\ (pc \in {"header", "data"} /\ pc' = pc) => pos' > pos

\* C22: for every finite input parse_rinex_obs terminates, and the scan is
\* forward-only: every iteration of the header loop, of the continuation
\* loops and of the data loop consumes a new line or exits, and no line is
\* read again after it was consumed.
C22_TerminatesForwardOnly ==
  /\ <>(pc = "done")
  /\ [][ForwardStep]_vars

\* the whole file was scanned to its end in a call that went through an
\* observation-type continuation line or a satellite-identifier
\* continuation line, and past a blank line
C22_ScannedToEndOfFile ==
  /\ pc = "done" /\ site = "ok"
  /\ pos = Len(file) /\ Len(file) >= 6
  /\ \/ input.hd.decl.perLine < Len(input.hd.decl.codes)
     \/ \E i \in 1..Len(input.data) :
          input.data[i].fmt = "v2" /\ input.data[i].onHeader < Len(input.data[i].ids)
  /\ \E i \in 1..Len(input.data) : input.data[i].blank

\* sv_ids.size() - obs_lines_remaining
SvIdIndex(d) == Len(d.sv_ids) - d.obs_lines_remaining

\* C23: in the v2 machine, whenever a satellite row is about to be stored,
\* the index sv_ids.size() - obs_lines_remaining is within the collected
\* identifier list, also when the collection of identifiers was ended by
\* the end of the input; the lookup outside the list never happens.
C23_SvIdIndexInBounds ==
  /\ ret # "ub"
  /\ (pc = "data" /\ ~hdr.is_v3 /\ pos < Len(file) /\ RowLine(NextDataLine))
       => (SvIdIndex(dat) >= 0 /\ SvIdIndex(dat) < Len(dat.sv_ids))

\* a row was stored and its epoch appended, and the identifier list of a
\* later epoch was cut short by the end of the input
C23_CollectionEndedByEof ==
  /\ pc = "done" /\ ret = "true" /\ ~hdr.is_v3
  /\ EpochsAppended >= 1
  /\ dat.in_epoch
  /\ Len(dat.sv_ids) < dat.current_epoch.num_sv
  /\ pos = Len(file)

====
